---- MODULE Spec2Model ----
(***************************************************************************)
(* Model of the GNU make jobserver demo client (src/main.rs).              *)
(*                                                                         *)
(* Strings are sequences of one-character strings, so that rfind, find,    *)
(* slicing, split and the i32 parser are computed character by character   *)
(* as the Rust code computes them.  One run of main is one behaviour: the  *)
(* environment variable is drawn in Init, then main parses it and performs *)
(* the acquire/release exchange against a channel whose reads and writes   *)
(* may succeed or fail.                                                    *)
(***************************************************************************)
EXTENDS Integers, Sequences, FiniteSets, TLC

VARIABLES env_set, makeflags, pc, job_server_style, token, owned, closed,
          io, removed, written, printed, warnings, exit

vars == <<env_set, makeflags, pc, job_server_style, token, owned, closed,
          io, removed, written, printed, warnings, exit>>

(***************************************************************************)
(* Bounds of the model.                                                    *)
(***************************************************************************)
\* number of words concatenated into the MAKEFLAGS value
MaxWords == 2

(***************************************************************************)
(* Program constants.                                                      *)
(***************************************************************************)
I32_MAX == 2147483647
I32_MIN == -I32_MAX - 1
U8_MAX == 255
FifoTokenLen == 2
PipeTokenLen == 1

AuthMarker ==
  <<"-","-","j","o","b","s","e","r","v","e","r","-","a","u","t","h","=">>
FifoMarker ==
  <<"-","-","j","o","b","s","e","r","v","e","r","-","a","u","t","h","=","f","i","f","o",":">>

Digits == {"0","1","2","3","4","5","6","7","8","9"}

(***************************************************************************)
(* str primitives.  Offsets are 0-based byte offsets as in Rust; None is   *)
(* Option::None.                                                           *)
(***************************************************************************)
None == -1

\* &s[from..to]
Slice(s, from, to) == SubSeq(s, from + 1, to)

\* &s[from..]
SliceFrom(s, from) == SubSeq(s, from + 1, Len(s))

\* pat occurs in s at byte offset i
MatchesAt(s, pat, i) ==
  /\ i >= 0
  /\ i + Len(pat) <= Len(s)
  /\ \A k \in 1..Len(pat) : s[i + k] = pat[k]

\* str::rfind(pat): offset of the last occurrence
rfind(s, pat) ==
  LET occ == {i \in 0..(Len(s) - Len(pat)) : MatchesAt(s, pat, i)}
  IN  IF occ = {} THEN None ELSE CHOOSE i \in occ : \A j \in occ : j <= i

\* str::find(' '): offset of the first space
find_space(s) ==
  LET occ == {i \in 0..(Len(s) - 1) : s[i + 1] = " "}
  IN  IF occ = {} THEN None ELSE CHOOSE i \in occ : \A j \in occ : i <= j

\* c == '-' || c.is_ascii_digit()
IsMinusOrDigit(c) == c = "-" \/ c \in Digits

\* str::find(|c| c == '-' || c.is_ascii_digit())
find_minus_or_digit(s) ==
  LET occ == {i \in 0..(Len(s) - 1) : IsMinusOrDigit(s[i + 1])}
  IN  IF occ = {} THEN None ELSE CHOOSE i \in occ : \A j \in occ : i <= j

\* str::split(',').collect::<Vec<_>>()
RECURSIVE split(_)
split(s) ==
  LET occ == {i \in 1..Len(s) : s[i] = ","}
  IN  IF occ = {} THEN <<s>>
      ELSE LET i == CHOOSE i \in occ : \A j \in occ : i <= j
           IN  <<SubSeq(s, 1, i - 1)>> \o split(SubSeq(s, i + 1, Len(s)))

DigitVal(c) ==
  CASE c = "0" -> 0 [] c = "1" -> 1 [] c = "2" -> 2 [] c = "3" -> 3
    [] c = "4" -> 4 [] c = "5" -> 5 [] c = "6" -> 6 [] c = "7" -> 7
    [] c = "8" -> 8 [] c = "9" -> 9

ParseErr == [ok |-> FALSE, val |-> 0]
ParseOk(n) == [ok |-> TRUE, val |-> n]

\* positive accumulation: checked_mul(10) then checked_add(digit)
RECURSIVE AccPos(_, _)
AccPos(ds, acc) ==
  IF ds = <<>> THEN ParseOk(acc)
  ELSE IF Head(ds) \notin Digits THEN ParseErr
  ELSE IF acc > I32_MAX \div 10 THEN ParseErr
  ELSE IF acc * 10 > I32_MAX - DigitVal(Head(ds)) THEN ParseErr
  ELSE AccPos(Tail(ds), acc * 10 + DigitVal(Head(ds)))

\* negative accumulation: checked_mul(10) then checked_sub(digit)
RECURSIVE AccNeg(_, _)
AccNeg(ds, acc) ==
  IF ds = <<>> THEN ParseOk(acc)
  ELSE IF Head(ds) \notin Digits THEN ParseErr
  ELSE IF acc < -(I32_MAX \div 10) THEN ParseErr
  ELSE IF acc * 10 < I32_MIN + DigitVal(Head(ds)) THEN ParseErr
  ELSE AccNeg(Tail(ds), acc * 10 - DigitVal(Head(ds)))

\* str::parse::<i32>()
parse_i32(f) ==
  IF f = <<>> THEN ParseErr
  ELSE IF f = <<"-">> \/ f = <<"+">> THEN ParseErr
  ELSE IF Head(f) = "-" THEN AccNeg(Tail(f), 0)
  ELSE IF Head(f) = "+" THEN AccPos(Tail(f), 0)
  ELSE AccPos(f, 0)

(***************************************************************************)
(* JobServerStyle, ParseJobserverAuthError and the parser.                 *)
(***************************************************************************)
Fifo(p) == [tag |-> "Fifo", path |-> p]
Pipe(r, w) == [tag |-> "Pipe", read_fd |-> r, write_fd |-> w]
InvalidJobServerAuth(s) == [tag |-> "InvalidJobServerAuth", arg |-> s]
InvalidPipeDescriptors == [tag |-> "InvalidPipeDescriptors"]
\* Result::unwrap() on an Err: the thread panics
Panic == [tag |-> "Panic"]
Unparsed == [tag |-> "Unparsed"]

\* ParseFifo without the search for the terminating space
ParseFifo_ToEnd(s, pos) == Fifo(SliceFrom(s, pos + Len(FifoMarker)))

\* the fifo branch, taken when the fifo marker was found at pos
ParseFifo(s, pos) ==
  LET pos_eq == pos + Len(FifoMarker)
      space_pos == find_space(SliceFrom(s, pos_eq))
  IN  IF space_pos # None
        THEN Fifo(Slice(s, pos_eq, pos_eq + space_pos))
        ELSE Fifo(SliceFrom(s, pos_eq))

\* the condition under which the pipe branch is entered
PipeFormDetected(s, pos_eq) ==
  find_minus_or_digit(SliceFrom(s, pos_eq)) # None

\* the pipe branch, entered when the auth marker was found at pos
ParsePipe(s, pos) ==
  LET pos_eq == pos + Len(AuthMarker)
      space_pos == find_space(SliceFrom(s, pos_eq))
      splits == IF space_pos # None
                  THEN split(Slice(s, pos_eq, pos_eq + space_pos))
                  ELSE split(SliceFrom(s, pos_eq))
  IN  IF Len(splits) # 2 THEN InvalidPipeDescriptors
      ELSE IF ~parse_i32(splits[1]).ok \/ ~parse_i32(splits[2]).ok THEN Panic
      ELSE Pipe(parse_i32(splits[1]).val, parse_i32(splits[2]).val)

\* NoMatch answering with a disabled descriptor pair instead of the error
NoMatch_Disabled(s) == Pipe(-1, -1)

\* the fall-through at the end of the parser
NoMatch(s) == InvalidJobServerAuth(s)

parse_jobserver_auth(s) ==
  LET fifo_pos == rfind(s, FifoMarker)
      pos == rfind(s, AuthMarker)
  IN  IF fifo_pos # None THEN ParseFifo(s, fifo_pos)
      ELSE IF pos # None /\ PipeFormDetected(s, pos + Len(AuthMarker))
        THEN ParsePipe(s, pos)
      ELSE NoMatch(s)

(***************************************************************************)
(* The MAKEFLAGS values a run may inherit: up to MaxWords words, each an   *)
(* optional space, an optional marker and a value.                         *)
(***************************************************************************)
Seps == {<<>>, <<" ">>}
Markers == {<<>>, AuthMarker, FifoMarker}
Values ==
  { <<>>,
    <<"3", ",", "4">>,
    <<"3", ",", "3">>,
    <<"-", "2", ",", "4">>,
    <<"3", ",", "-", "2">>,
    <<"x">>,
    <<"-", "j", "2">> }

Words == {sp \o m \o v : sp \in Seps, m \in Markers, v \in Values}

RECURSIVE Concat(_)
Concat(ws) == IF ws = <<>> THEN <<>> ELSE Head(ws) \o Concat(Tail(ws))

\* token bytes: the content is never inspected, the two extremes of u8 stand
\* for every value
Byte == {0, U8_MAX}

(***************************************************************************)
(* File handles.  A File made by File::from_raw_fd(fd) owns descriptor fd; *)
(* a File made by open(path) owns the descriptor the open returned.        *)
(***************************************************************************)
RawFile(fd) == [from |-> "raw", fd |-> fd]
OpenedFile(path) == [from |-> "open", path |-> path]

Reverse(q) == [i \in 1..Len(q) |-> q[Len(q) + 1 - i]]

Count(q, h) == Cardinality({i \in 1..Len(q) : q[i] = h})

\* some descriptor is owned by two File values
DoubleOwned(q) == \E i, j \in 1..Len(q) : i < j /\ q[i] = q[j]

\* strict prefixes of b: what a failed read_exact/write_all may have moved
StrictPrefixes(b) == {SubSeq(b, 1, k) : k \in 0..(Len(b) - 1)}

\* Unusable with && in place of ||
Unusable_Both(read_fd, write_fd) == read_fd < 0 /\ write_fd < 0

\* the condition under which the pipe exchange is skipped
Unusable(read_fd, write_fd) == read_fd < 0 \/ write_fd < 0

(***************************************************************************)
(* Leaving a scope drops the File values in reverse declaration order;     *)
(* each drop closes the descriptor.  Closing a descriptor that an earlier  *)
(* drop already closed is an I/O safety violation: the close either fails  *)
(* with EBADF, which is ignored, or the runtime aborts before the close.   *)
(***************************************************************************)
DropFiles(files, status) ==
  IF DoubleOwned(files)
    THEN \/ closed' = closed \o Reverse(files) /\ exit' = status
         \/ closed' = closed \o <<files[Len(files)]>> /\ exit' = "abort"
    ELSE closed' = closed \o Reverse(files) /\ exit' = status

Init ==
  /\ \/ env_set = FALSE /\ makeflags = <<>>
     \/ /\ env_set = TRUE
        /\ \E n \in 0..MaxWords : \E ws \in [1..n -> Words] :
             makeflags = Concat(ws)
  /\ pc = "start"
  /\ job_server_style = Unparsed
  /\ token = <<>>
  /\ owned = <<>>
  /\ closed = <<>>
  /\ io = <<>>
  /\ removed = <<>>
  /\ written = <<>>
  /\ printed = <<>>
  /\ warnings = {}
  /\ exit = "running"

\* env::var("MAKEFLAGS") is Err
EnvMissing ==
  /\ pc = "start"
  /\ ~env_set
  /\ warnings' = warnings \cup {"jobserver not available"}
  /\ pc' = "done"
  /\ exit' = "ok"
  /\ UNCHANGED <<env_set, makeflags, job_server_style, token, owned, closed,
                 io, removed, written, printed>>

\* env::var is Ok: print the presence line, parse, and dispatch on the result
ParseEnv ==
  /\ pc = "start"
  /\ env_set
  /\ printed' = IF rfind(makeflags, AuthMarker) # None
                  THEN printed \o <<"jobserver present">> ELSE printed
  /\ job_server_style' = parse_jobserver_auth(makeflags)
  /\ CASE job_server_style'.tag = "Fifo" -> pc' = "fifo" /\ exit' = exit
       [] job_server_style'.tag = "Pipe" -> pc' = "pipe" /\ exit' = exit
       [] job_server_style'.tag = "Panic" -> pc' = "done" /\ exit' = "panic"
       [] OTHER -> pc' = "done" /\ exit' = "error: parsing jobserver auth"
  /\ UNCHANGED <<env_set, makeflags, token, owned, closed, io, removed,
                 written, warnings>>

\* File::options().read(true).write(true).create_new(false).open(path)?
FifoOpen ==
  /\ pc = "fifo"
  /\ \/ /\ owned' = owned \o <<OpenedFile(job_server_style.path)>>
        /\ token' = [i \in 1..FifoTokenLen |-> 0]
        /\ pc' = "fifo_acquire"
        /\ exit' = exit
     \/ /\ pc' = "done"
        /\ exit' = "error: open"
        /\ UNCHANGED <<owned, token>>
  /\ UNCHANGED <<env_set, makeflags, job_server_style, closed, io, removed,
                 written, printed, warnings>>

\* FifoAcquire with the error of read_exact dropped instead of propagated
FifoAcquire_NoBail ==
  /\ pc = "fifo_acquire"
  /\ \E b \in [1..FifoTokenLen -> Byte] : \E part \in StrictPrefixes(b) :
       /\ removed' = removed \o part
       /\ io' = io \o <<"read failed">>
       /\ pc' = "fifo_release"
  /\ UNCHANGED <<env_set, makeflags, job_server_style, token, owned, closed,
                 written, printed, warnings, exit>>

\* fifo.read_exact(&mut token).context("acquiring token")?, then the printlns
FifoAcquire ==
  /\ pc = "fifo_acquire"
  /\ \/ \E b \in [1..FifoTokenLen -> Byte] :
          /\ token' = b
          /\ removed' = removed \o b
          /\ io' = io \o <<"read ok">>
          /\ printed' = printed \o <<b[1], b[2]>>
          /\ pc' = "fifo_release"
          /\ UNCHANGED <<closed, exit>>
     \/ \E b \in [1..FifoTokenLen -> Byte] : \E part \in StrictPrefixes(b) :
          /\ removed' = removed \o part
          /\ io' = io \o <<"read failed">>
          /\ pc' = "done"
          /\ DropFiles(owned, "error: acquiring token")
          /\ UNCHANGED <<token, printed>>
  /\ UNCHANGED <<env_set, makeflags, job_server_style, owned, written,
                 warnings>>

\* FifoRelease with a single write of one byte taken for the whole release
FifoRelease_OneByte ==
  /\ pc = "fifo_release"
  /\ written' = written \o <<token[1]>>
  /\ io' = io \o <<"write ok">>
  /\ DropFiles(owned, "ok")
  /\ pc' = "done"
  /\ UNCHANGED <<env_set, makeflags, job_server_style, token, owned, removed,
                 printed, warnings>>

\* fifo.write_all(&token).context("releasing token")?
FifoRelease ==
  /\ pc = "fifo_release"
  /\ \/ /\ written' = written \o token
        /\ io' = io \o <<"write ok">>
        /\ DropFiles(owned, "ok")
     \/ \E part \in StrictPrefixes(token) :
          /\ written' = written \o part
          /\ io' = io \o <<"write failed">>
          /\ DropFiles(owned, "error: releasing token")
  /\ pc' = "done"
  /\ UNCHANGED <<env_set, makeflags, job_server_style, token, owned, removed,
                 printed, warnings>>

\* read_fd < 0 || write_fd < 0: warn and skip the exchange
PipeUnusable ==
  /\ pc = "pipe"
  /\ Unusable(job_server_style.read_fd, job_server_style.write_fd)
  /\ warnings' = warnings \cup {"negative pipe file descriptors"}
  /\ pc' = "done"
  /\ exit' = "ok"
  /\ UNCHANGED <<env_set, makeflags, job_server_style, token, owned, closed,
                 io, removed, written, printed>>

\* File::from_raw_fd(read_fd), File::from_raw_fd(write_fd), token = [0; 1]
PipeOwn ==
  /\ pc = "pipe"
  /\ ~Unusable(job_server_style.read_fd, job_server_style.write_fd)
  /\ owned' = owned \o <<RawFile(job_server_style.read_fd),
                         RawFile(job_server_style.write_fd)>>
  /\ token' = [i \in 1..PipeTokenLen |-> 0]
  /\ pc' = "pipe_acquire"
  /\ UNCHANGED <<env_set, makeflags, job_server_style, closed, io, removed,
                 written, printed, warnings, exit>>

\* file_read.read_exact(&mut token).context("acquiring token")?, then println
PipeAcquire ==
  /\ pc = "pipe_acquire"
  /\ \/ \E b \in [1..PipeTokenLen -> Byte] :
          /\ token' = b
          /\ removed' = removed \o b
          /\ io' = io \o <<"read ok">>
          /\ printed' = printed \o <<b[1]>>
          /\ pc' = "pipe_release"
          /\ UNCHANGED <<closed, exit>>
     \/ \E b \in [1..PipeTokenLen -> Byte] : \E part \in StrictPrefixes(b) :
          /\ removed' = removed \o part
          /\ io' = io \o <<"read failed">>
          /\ pc' = "done"
          /\ DropFiles(owned, "error: acquiring token")
          /\ UNCHANGED <<token, printed>>
  /\ UNCHANGED <<env_set, makeflags, job_server_style, owned, written,
                 warnings>>

\* file_write.write_all(&token).context("releasing token")?
PipeRelease ==
  /\ pc = "pipe_release"
  /\ \/ /\ written' = written \o token
        /\ io' = io \o <<"write ok">>
        /\ DropFiles(owned, "ok")
     \/ \E part \in StrictPrefixes(token) :
          /\ written' = written \o part
          /\ io' = io \o <<"write failed">>
          /\ DropFiles(owned, "error: releasing token")
  /\ pc' = "done"
  /\ UNCHANGED <<env_set, makeflags, job_server_style, token, owned, removed,
                 printed, warnings>>

Next ==
  \/ EnvMissing
  \/ ParseEnv
  \/ FifoOpen
  \/ FifoAcquire
  \/ FifoRelease
  \/ PipeUnusable
  \/ PipeOwn
  \/ PipeAcquire
  \/ PipeRelease

Spec == Init /\ [][Next]_vars

\* the parser alone: every input is parsed and the run is followed no further
SpecParse == Init /\ [][ParseEnv]_vars

(***************************************************************************)
(* Vocabulary of the properties, stated on the string itself and not       *)
(* through the parser's own search functions.                              *)
(***************************************************************************)
Occurrences(s, pat) ==
  {i \in 0..(Len(s) - Len(pat)) : \A k \in 1..Len(pat) : s[i + k] = pat[k]}

Last(S) == CHOOSE i \in S : \A j \in S : j <= i

\* the text from offset from up to the next space or the end of the string
ValueFrom(s, from) ==
  LET rest == SubSeq(s, from + 1, Len(s))
      spaces == {k \in 1..Len(rest) : rest[k] = " "}
      n == IF spaces = {} THEN Len(rest)
           ELSE (CHOOSE k \in spaces : \A j \in spaces : k <= j) - 1
  IN  SubSeq(rest, 1, n)

\* the value of the last --jobserver-auth= occurrence
LastValue(s) ==
  ValueFrom(s, Last(Occurrences(s, AuthMarker)) + Len(AuthMarker))

FifoPrefix == <<"f", "i", "f", "o", ":">>

HasFifoForm(v) == Len(v) >= Len(FifoPrefix) /\ SubSeq(v, 1, Len(FifoPrefix)) = FifoPrefix

NumFields(v) == Cardinality({i \in 1..Len(v) : v[i] = ","}) + 1

IsIntPair(v) ==
  /\ NumFields(v) = 2
  /\ parse_i32(split(v)[1]).ok
  /\ parse_i32(split(v)[2]).ok

Parsed == env_set /\ pc # "start"

TokenLen(style) == IF style.tag = "Fifo" THEN FifoTokenLen ELSE PipeTokenLen

Reads == {i \in 1..Len(io) : io[i] \in {"read ok", "read failed"}}
Writes == {i \in 1..Len(io) : io[i] \in {"write ok", "write failed"}}

(***************************************************************************)
(* C1: with two or more --jobserver-auth= occurrences, of any mix of       *)
(* forms, the result is the variant the last occurrence describes.         *)
(***************************************************************************)
C1_LastOccurrenceWins ==
  (Parsed /\ Cardinality(Occurrences(makeflags, AuthMarker)) >= 2) =>
    LET v == LastValue(makeflags)
    IN  /\ HasFifoForm(v) =>
             job_server_style = Fifo(SubSeq(v, Len(FifoPrefix) + 1, Len(v)))
        /\ IsIntPair(v) =>
             job_server_style =
               Pipe(parse_i32(split(v)[1]).val, parse_i32(split(v)[2]).val)

(***************************************************************************)
(* C2: every descriptor the pipe exchange took ownership of has been       *)
(* closed exactly once when the run is over.                               *)
(***************************************************************************)
C2_ClosedExactlyOnce ==
  (pc = "done" /\ job_server_style.tag = "Pipe" /\ owned # <<>>) =>
    \A i \in 1..Len(owned) : Count(closed, owned[i]) = 1

(***************************************************************************)
(* C3: at most one acquire and one release per run; a release is attempted *)
(* only after a read that delivered the whole token, and a failed read is  *)
(* followed by no write.                                                   *)
(***************************************************************************)
C3_ReleaseOnlyAfterAcquire ==
  /\ Cardinality(Reads) <= 1
  /\ Cardinality(Writes) <= 1
  /\ \A i \in Writes :
       /\ i = 2
       /\ io[1] = "read ok"
       /\ Len(removed) = TokenLen(job_server_style)
  /\ ("read failed" \in {io[i] : i \in 1..Len(io)}) =>
       (Writes = {} /\ written = <<>>)

\* a short read on the named pipe ended the run
C3_Witness ==
  /\ pc = "done"
  /\ job_server_style.tag = "Fifo"
  /\ io = <<"read failed">>
  /\ Len(removed) = 1

(***************************************************************************)
(* C4: after a completed release the bytes written are exactly the bytes   *)
(* read, in order: 2 on the named pipe, 1 on the descriptor pair.          *)
(***************************************************************************)
C4_RoundTrip ==
  (io # <<>> /\ io[Len(io)] = "write ok") =>
    /\ written = removed
    /\ Len(written) = TokenLen(job_server_style)

\* a named-pipe run gave back a token of two different bytes
C4_Witness ==
  /\ pc = "done"
  /\ exit = "ok"
  /\ job_server_style.tag = "Fifo"
  /\ removed = <<0, U8_MAX>>
  /\ written = <<0, U8_MAX>>

(***************************************************************************)
(* C5: with a negative descriptor in either field the exchange is skipped: *)
(* no read, no write, no ownership; a warning, and the run succeeds.       *)
(***************************************************************************)
C5_NegativeSkips ==
  (/\ job_server_style.tag = "Pipe"
   /\ (job_server_style.read_fd < 0 \/ job_server_style.write_fd < 0)) =>
    /\ owned = <<>>
    /\ closed = <<>>
    /\ io = <<>>
    /\ removed = <<>>
    /\ written = <<>>
    /\ exit \in {"running", "ok"}
    /\ pc = "done" =>
         (exit = "ok" /\ "negative pipe file descriptors" \in warnings)

\* a run with a usable read descriptor and a negative write descriptor is over
C5_Witness ==
  /\ pc = "done"
  /\ job_server_style.tag = "Pipe"
  /\ job_server_style.read_fd >= 0
  /\ job_server_style.write_fd < 0

(***************************************************************************)
(* C6: a descriptor-pair value of exactly two fields, one of which is not  *)
(* a signed integer, yields InvalidPipeDescriptors.                        *)
(***************************************************************************)
C6_BadFieldIsError ==
  (/\ Parsed
   /\ Occurrences(makeflags, FifoMarker) = {}
   /\ Occurrences(makeflags, AuthMarker) # {}
   /\ LastValue(makeflags) # <<>>
   /\ IsMinusOrDigit(LastValue(makeflags)[1])
   /\ NumFields(LastValue(makeflags)) = 2
   /\ ~IsIntPair(LastValue(makeflags))) =>
    job_server_style = InvalidPipeDescriptors

(***************************************************************************)
(* C7: when the authoritative marker's value is <a>,<b> the result is      *)
(* Pipe(a, b); when a descriptor-form value has a number of fields other   *)
(* than two the result is InvalidPipeDescriptors.                          *)
(***************************************************************************)
C7_PipeForm ==
  (/\ Parsed
   /\ Occurrences(makeflags, AuthMarker) # {}
   /\ LastValue(makeflags) # <<>>
   /\ IsMinusOrDigit(LastValue(makeflags)[1])) =>
    LET v == LastValue(makeflags)
    IN  /\ IsIntPair(v) =>
             job_server_style =
               Pipe(parse_i32(split(v)[1]).val, parse_i32(split(v)[2]).val)
        /\ NumFields(v) # 2 => job_server_style = InvalidPipeDescriptors

(***************************************************************************)
(* C8: when the fifo marker occurs, the result is Fifo(p), p being the     *)
(* text after the last fifo marker up to the next space or the end of the  *)
(* string; p holds no space.                                               *)
(***************************************************************************)
C8_FifoPath ==
  (Parsed /\ Occurrences(makeflags, FifoMarker) # {}) =>
    /\ job_server_style =
         Fifo(ValueFrom(makeflags,
                        Last(Occurrences(makeflags, FifoMarker)) + Len(FifoMarker)))
    /\ \A k \in 1..Len(job_server_style.path) : job_server_style.path[k] # " "

\* a fifo marker with a non-empty path that a space and more text follow
C8_Witness ==
  /\ Parsed
  /\ Occurrences(makeflags, FifoMarker) # {}
  /\ job_server_style.tag = "Fifo"
  /\ job_server_style.path # <<>>
  /\ LET end == Last(Occurrences(makeflags, FifoMarker)) + Len(FifoMarker)
                  + Len(job_server_style.path)
     IN  end + 1 < Len(makeflags) /\ makeflags[end + 1] = " "

(***************************************************************************)
(* C9: a string without any --jobserver-auth= fails with                   *)
(* InvalidJobServerAuth carrying the string itself; the run ends in the    *)
(* parse error.                                                            *)
(***************************************************************************)
C9_NoMarkerIsInvalid ==
  (Parsed /\ Occurrences(makeflags, AuthMarker) = {}) =>
    /\ job_server_style = [tag |-> "InvalidJobServerAuth", arg |-> makeflags]
    /\ pc = "done"
    /\ exit = "error: parsing jobserver auth"

\* a non-empty string of flags without the marker was parsed
C9_Witness ==
  /\ Parsed
  /\ Occurrences(makeflags, AuthMarker) = {}
  /\ Len(makeflags) > 3
  /\ job_server_style.tag = "InvalidJobServerAuth"

(***************************************************************************)
(* C10: without a fifo marker, when the character right after the last     *)
(* marker is neither a digit nor a minus sign (or there is none), the      *)
(* result is InvalidJobServerAuth of the string, whatever follows later.   *)
(***************************************************************************)
C10_FormDecidedByNextChar ==
  (/\ Parsed
   /\ Occurrences(makeflags, FifoMarker) = {}
   /\ Occurrences(makeflags, AuthMarker) # {}
   /\ LET after == Last(Occurrences(makeflags, AuthMarker)) + Len(AuthMarker)
      IN  after = Len(makeflags) \/ ~IsMinusOrDigit(makeflags[after + 1])) =>
    job_server_style = [tag |-> "InvalidJobServerAuth", arg |-> makeflags]

====
